---------------------------- MODULE Spec2Model ----------------------------
(***************************************************************************)
(* Model of basalt-nbt: the tag tree (tags.ts), the binary dumper          *)
(* (dump.ts), the binary parser (parser/nbt.ts) and the SNBT lexer and     *)
(* parser (parser/snbt.ts).                                                *)
(*                                                                         *)
(* Conventions.  Positions are 0-based as in the source, so the i-th       *)
(* element of a buffer or string is s[i + 1].  A string is the sequence of *)
(* its character codes.  A JS number is a decimal [m, e] = m * 10^-e, in   *)
(* lowest terms (e = 0 for a whole number); NaN is a value of its own.  A  *)
(* thrown exception is a result record with ok = FALSE and the message     *)
(* class in err.                                                           *)
(***************************************************************************)
EXTENDS Integers, Sequences, FiniteSets, TLC

VARIABLES
  root,      \* NBTDumper.root: the tag handed to dump()
  data,      \* the Uint8Array returned by dump() / handed to parseNBT()
  result,    \* what parseNBT(data) returned or threw; in SpecRead, what the
             \* last read of an NBTParser returned, with this.pos
  source,    \* the string handed to parseSNBT()
  parsed,    \* what parseSNBT(source) returned or threw; in SpecLexer, what
             \* the last next() of a Lexer returned, with the Lexer's fields
  ctx,       \* a DumpContext: buffer, pointer, view
  appended,  \* history: the bytes handed to ctx so far, in order
  items,     \* CompoundTag.items: the Map, as its ordered list of entries
  log        \* history: the put/delete calls made on the CompoundTag, the
             \* (name, value) pairs an input was written from, the last
             \* read made on an NBTParser, or the next() calls made on a Lexer

vars == <<root, data, result, source, parsed, ctx, appended, items, log>>

-----------------------------------------------------------------------------
(* Characters and strings                                                  *)

Ascii ==
  <<" ", "!", "DQ", "#", "$", "%", "&", "SQ", "(", ")", "*", "+", ",", "-", ".", "/",
    "0", "1", "2", "3", "4", "5", "6", "7", "8", "9", ":", ";", "<", "=", ">", "?",
    "@", "A", "B", "C", "D", "E", "F", "G", "H", "I", "J", "K", "L", "M", "N", "O",
    "P", "Q", "R", "S", "T", "U", "V", "W", "X", "Y", "Z", "[", "BS", "]", "^", "_",
    "BT", "a", "b", "c", "d", "e", "f", "g", "h", "i", "j", "k", "l", "m", "n", "o",
    "p", "q", "r", "s", "t", "u", "v", "w", "x", "y", "z", "{", "|", "}", "~">>

\* "c".charCodeAt(0) for a printable ASCII character, tab, newline or CR;
\* the double quote, the single quote and the backslash are written DQ, SQ, BS, and the backtick BT
Code(c) ==
  IF c = "TAB" THEN 9
  ELSE IF c = "LF" THEN 10
  ELSE IF c = "CR" THEN 13
  ELSE 31 + (CHOOSE i \in 1..Len(Ascii) : Ascii[i] = c)

\* a string literal, written as the tuple of its characters
Str(cs) == [i \in 1..Len(cs) |-> Code(cs[i])]

RECURSIVE Concat(_)
\* the concatenation of a sequence of sequences
Concat(ss) == IF ss = <<>> THEN <<>> ELSE Head(ss) \o Concat(Tail(ss))

\* s.includes(x) / array.includes(x)
Includes(s, x) == \E i \in 1..Len(s) : s[i] = x

\* s.slice(from, to) with 0 <= from <= to, clamped to the length as slice does
Slice(s, from, to) ==
  LET hi == IF to > Len(s) THEN Len(s) ELSE to
  IN  IF from >= hi THEN <<>> ELSE [i \in 1..(hi - from) |-> s[from + i]]

-----------------------------------------------------------------------------
(* JS numbers                                                              *)

Num(m, e) == [m |-> m, e |-> e]
Whole(n) == Num(n, 0)
NaN == Num(0, -1)
\* a float whose bit pattern lies outside the modelled table
OtherFloat == Num(0, -2)

RECURSIVE Pow10(_)
Pow10(e) == IF e <= 0 THEN 1 ELSE 10 * Pow10(e - 1)

RECURSIVE Normalize(_)
\* lowest terms: strip trailing zeros of the fraction
Normalize(n) ==
  IF n.e > 0 /\ n.m % 10 = 0 THEN Normalize(Num(n.m \div 10, n.e - 1)) ELSE n

\* truncation toward zero, as ToInt32 / ToUint8 start (NaN gives 0)
Trunc(n) ==
  IF n.e < 0 THEN 0
  ELSE IF n.m >= 0 THEN n.m \div Pow10(n.e)
  ELSE -((-n.m) \div Pow10(n.e))

-----------------------------------------------------------------------------
(* tags.ts: the tag tree                                                   *)

TAG_End == 0
TAG_Byte == 1
TAG_Short == 2
TAG_Int == 3
TAG_Long == 4
TAG_Float == 5
TAG_Double == 6
TAG_Byte_Array == 7
TAG_String == 8
TAG_List == 9
TAG_Compound == 10
TAG_Int_Array == 11
TAG_Long_Array == 12

\* A tag object.  getId() is .id; the payload field is the one of its class:
\* .num (LiteralTag<number|bigint>.value), .text (StringTag.value), .nums
\* (the array tags' items), .list (ListTag.items), .map (CompoundTag.items).
\* The fields a class does not have stay as in Null, the missing indicator
\* of CompoundTag.get.
Null == [id |-> -1, num |-> Whole(0), text |-> <<>>, nums |-> <<>>, list |-> <<>>, map |-> <<>>]

ByteTag(n) == [Null EXCEPT !.id = TAG_Byte, !.num = n]
ShortTag(n) == [Null EXCEPT !.id = TAG_Short, !.num = n]
IntTag(n) == [Null EXCEPT !.id = TAG_Int, !.num = n]
LongTag(n) == [Null EXCEPT !.id = TAG_Long, !.num = n]
FloatTag(n) == [Null EXCEPT !.id = TAG_Float, !.num = n]
DoubleTag(n) == [Null EXCEPT !.id = TAG_Double, !.num = n]
StringTag(s) == [Null EXCEPT !.id = TAG_String, !.text = s]
ListTag(ts) == [Null EXCEPT !.id = TAG_List, !.list = ts]
ByteArrayTag(ns) == [Null EXCEPT !.id = TAG_Byte_Array, !.nums = ns]
IntArrayTag(ns) == [Null EXCEPT !.id = TAG_Int_Array, !.nums = ns]
LongArrayTag(ns) == [Null EXCEPT !.id = TAG_Long_Array, !.nums = ns]

\* A JS Map is the sequence of its entries in iteration order, keys unique.
Entry(k, v) == [key |-> k, value |-> v]

\* Map.prototype.has
MapHas(m, k) == \E i \in 1..Len(m) : m[i].key = k

\* Map.set that moves an overwritten key to the end
MapSet_moveToEnd(m, k, v) == Append(SelectSeq(m, LAMBDA e : e.key # k), [key |-> k, value |-> v])

\* Map.prototype.set: an existing key keeps its place, a new key goes last
MapSet(m, k, v) ==
  IF MapHas(m, k)
  THEN [i \in 1..Len(m) |-> IF m[i].key = k THEN Entry(k, v) ELSE m[i]]
  ELSE Append(m, Entry(k, v))

\* Map.prototype.delete
MapDelete(m, k) == SelectSeq(m, LAMBDA e : e.key # k)

\* Map.prototype.keys, as an array
MapKeys(m) == [i \in 1..Len(m) |-> m[i].key]

\* the value a present key maps to
MapValue(m, k) == m[CHOOSE i \in 1..Len(m) : m[i].key = k].value

\* new CompoundTag(map)
CompoundTag(m) == [Null EXCEPT !.id = TAG_Compound, !.map = m]

\* CompoundTag.list()
List(tag) == MapKeys(tag.map)

\* CompoundTag.get(name): this.items.get(name) ?? null
Get(tag, name) == IF MapHas(tag.map, name) THEN MapValue(tag.map, name) ELSE Null

\* CompoundTag.put(name, tag)
Put(tag, name, v) == CompoundTag(MapSet(tag.map, name, v))

\* CompoundTag.delete(name)
Delete(tag, name) == CompoundTag(MapDelete(tag.map, name))

-----------------------------------------------------------------------------
(* Platform conversions used by the dumper and the parser                  *)

RECURSIVE Shr8(_, _)
\* v >> (8 * k), arithmetic
Shr8(v, k) == IF k = 0 THEN v ELSE Shr8(v \div 256, k - 1)

\* DataView.setInt16/32/BigInt64 and setUint16/32/BigUint64: the low 8*n
\* bits of the integer, big-endian
BigEndian(n, v) == [i \in 1..n |-> Shr8(v, n - i) % 256]

\* the element conversion of new Uint8Array(values) and buffer[i] = value
ToUint8(n) == Trunc(n) % 256

\* TextEncoder.encode of one code point of the Basic Multilingual Plane
Utf8(c) ==
  IF c < 128 THEN <<c>>
  ELSE IF c < 2048 THEN <<192 + (c \div 64), 128 + (c % 64)>>
  ELSE <<224 + (c \div 4096), 128 + ((c \div 64) % 64), 128 + (c % 64)>>

\* new TextEncoder().encode(text)
TextEncode(text) == Concat([i \in 1..Len(text) |-> Utf8(text[i])])

REPLACEMENT == 65533

RECURSIVE TextDecode(_)
\* new TextDecoder().decode(bytes): ASCII, two-byte sequences, and U+FFFD
\* for a byte that starts no sequence the model decodes
TextDecode(bytes) ==
  IF bytes = <<>> THEN <<>>
  ELSE IF bytes[1] < 128 THEN <<bytes[1]>> \o TextDecode(Tail(bytes))
  ELSE IF /\ bytes[1] >= 194 /\ bytes[1] < 224 /\ Len(bytes) >= 2
          /\ bytes[2] >= 128 /\ bytes[2] < 192
       THEN <<(bytes[1] - 192) * 64 + (bytes[2] - 128)>> \o TextDecode(Tail(Tail(bytes)))
  ELSE <<REPLACEMENT>> \o TextDecode(Tail(bytes))

\* The floats of the model with their IEEE-754 bit patterns (single, double)
FloatTable ==
  << [num |-> Whole(0),   f32 |-> <<0, 0, 0, 0>>,     f64 |-> <<0, 0, 0, 0, 0, 0, 0, 0>>],
     [num |-> Whole(1),   f32 |-> <<63, 128, 0, 0>>,  f64 |-> <<63, 240, 0, 0, 0, 0, 0, 0>>],
     [num |-> Num(5, 1),  f32 |-> <<63, 0, 0, 0>>,    f64 |-> <<63, 224, 0, 0, 0, 0, 0, 0>>],
     [num |-> Num(15, 1), f32 |-> <<63, 192, 0, 0>>,  f64 |-> <<63, 248, 0, 0, 0, 0, 0, 0>>],
     [num |-> Whole(-2),  f32 |-> <<192, 0, 0, 0>>,   f64 |-> <<192, 0, 0, 0, 0, 0, 0, 0>>],
     [num |-> Whole(5),   f32 |-> <<64, 160, 0, 0>>,  f64 |-> <<64, 20, 0, 0, 0, 0, 0, 0>>],
     [num |-> NaN,        f32 |-> <<127, 192, 0, 0>>, f64 |-> <<127, 248, 0, 0, 0, 0, 0, 0>>] >>

\* DataView.setFloat32 / setFloat64 on a float of the table
FloatBits(n, v) ==
  LET row == FloatTable[CHOOSE i \in 1..Len(FloatTable) : FloatTable[i].num = v]
  IN  IF n = 4 THEN row.f32 ELSE row.f64

\* DataView.getFloat32 / getFloat64
FloatOfBits(n, bytes) ==
  LET hit == {i \in 1..Len(FloatTable) :
                bytes = (IF n = 4 THEN FloatTable[i].f32 ELSE FloatTable[i].f64)}
  IN  IF hit = {} THEN OtherFloat ELSE FloatTable[CHOOSE i \in hit : TRUE].num

RECURSIVE Pow256(_)
Pow256(k) == IF k = 0 THEN 1 ELSE 256 * Pow256(k - 1)

RECURSIVE Unsigned(_)
\* DataView.getUint16: the unsigned value of big-endian bytes
Unsigned(bytes) ==
  IF bytes = <<>> THEN 0
  ELSE Unsigned(SubSeq(bytes, 1, Len(bytes) - 1)) * 256 + bytes[Len(bytes)]

\* DataView.getInt16 / getInt32 / getBigInt64.  A 64-bit value outside the
\* 32-bit range (the range of TLC's integers) keeps its low word, marked wide.
SignedOf(bytes) ==
  LET n    == Len(bytes)
      low  == IF n = 8 THEN SubSeq(bytes, 5, 8) ELSE bytes
      top  == IF low[1] >= 128 THEN low[1] - 256 ELSE low[1]
      val  == top * Pow256(Len(low) - 1) + Unsigned(Tail(low))
      ext  == IF low[1] >= 128 THEN 255 ELSE 0
      fits == n < 8 \/ \A i \in 1..4 : bytes[i] = ext
  IN  IF fits THEN Whole(val) ELSE Num(val, -3)

\* DataView.getUint16 / getUint32 / getBigUint64.  A value outside the range
\* of TLC's integers keeps its low three bytes, marked wide.
UnsignedOf(bytes) ==
  LET n    == Len(bytes)
      low  == IF n > 4 THEN SubSeq(bytes, n - 3, n) ELSE bytes
      fits == /\ \A i \in 1..(n - 4) : bytes[i] = 0
              /\ n < 4 \/ low[1] < 128
  IN  IF fits THEN Whole(Unsigned(low)) ELSE Num(Unsigned(Tail(low)), -3)

-----------------------------------------------------------------------------
(* dump.ts: DumpContext                                                    *)

InitialCapacity == 256

Zeros(n) == [i \in 1..n |-> 0]

\* A DumpContext: the Uint8Array, the pointer, the byteLength of the DataView
\* and the exception that ended the dump ("" while none was thrown).
NewDumpContext ==
  [buffer |-> Zeros(InitialCapacity), pointer |-> 0, view |-> InitialCapacity, err |-> ""]

\* DumpContext.growBuffer(bytes)
growBuffer(c, bytes) ==
  IF c.pointer + bytes >= Len(c.buffer)
  THEN [c EXCEPT !.buffer = c.buffer \o Zeros(Len(c.buffer)), !.view = 0]
  ELSE c

\* buffer bytes written at 0-based offset at
WriteAt(buffer, at, bytes) ==
  [i \in 1..Len(buffer) |->
     IF i > at /\ i <= at + Len(bytes) THEN bytes[i - at] ELSE buffer[i]]

\* view.setXxx(offset, value) of width Len(bytes): a RangeError when the
\* write does not lie within the view
ViewSet(c, offset, bytes) ==
  IF offset + Len(bytes) > c.view
  THEN [c EXCEPT !.err = "RangeError"]
  ELSE [c EXCEPT !.buffer = WriteAt(c.buffer, offset, bytes)]

\* DumpContext.dumpInteger(bytes, value) and dumpUnsignedInteger(bytes, value)
dumpInteger(c, bytes, value) ==
  IF c.err # "" THEN c
  ELSE LET g == growBuffer(c, bytes)
           p == [g EXCEPT !.pointer = g.pointer + bytes]
       IN  ViewSet(p, p.pointer - bytes, BigEndian(bytes, Trunc(value)))

\* DumpContext.dumpFloat(bytes, value)
dumpFloat(c, bytes, value) ==
  IF c.err # "" THEN c
  ELSE LET g == growBuffer(c, bytes)
           p == [g EXCEPT !.pointer = g.pointer + bytes]
       IN  ViewSet(p, p.pointer - bytes, FloatBits(bytes, value))

\* DumpContext.dumpRaw(bytes): Uint8Array.set throws when the source does
\* not fit at the offset
dumpRaw(c, bytes) ==
  IF c.err # "" THEN c
  ELSE LET g == growBuffer(c, Len(bytes))
       IN  IF g.pointer + Len(bytes) > Len(g.buffer)
           THEN [g EXCEPT !.err = "RangeError"]
           ELSE [g EXCEPT !.buffer = WriteAt(g.buffer, g.pointer, bytes),
                          !.pointer = g.pointer + Len(bytes)]

\* DumpContext.dumpString(text)
dumpString(c, text) ==
  LET bytes == TextEncode(text)
  IN  dumpRaw(dumpInteger(c, 2, Whole(Len(bytes))), bytes)

\* DumpContext.dumpByte(byte): a store past the end of a typed array is dropped
dumpByte(c, byte) ==
  IF c.err # "" THEN c
  ELSE LET g == growBuffer(c, 1)
       IN  [g EXCEPT !.buffer = IF g.pointer < Len(g.buffer)
                                THEN WriteAt(g.buffer, g.pointer, <<ToUint8(byte)>>)
                                ELSE g.buffer,
                     !.pointer = g.pointer + 1]

\* DumpContext.final()
final(c) == Slice(c.buffer, 0, c.pointer)

-----------------------------------------------------------------------------
(* dump.ts: NBTDumper                                                      *)

RECURSIVE dumpIntegers(_, _, _)
\* for (i...) ctx.dumpInteger(bytes, values[i])
dumpIntegers(c, bytes, values) ==
  IF values = <<>> THEN c
  ELSE dumpIntegers(dumpInteger(c, bytes, Head(values)), bytes, Tail(values))

\* NBTDumper.dumpByteArray
dumpByteArray(c, tag) ==
  dumpRaw(dumpInteger(c, 4, Whole(Len(tag.nums))),
          [i \in 1..Len(tag.nums) |-> ToUint8(tag.nums[i])])

\* NBTDumper.dumpIntArray
dumpIntArray(c, tag) == dumpIntegers(dumpInteger(c, 4, Whole(Len(tag.nums))), 4, tag.nums)

\* NBTDumper.dumpLongArray
dumpLongArray(c, tag) == dumpIntegers(dumpInteger(c, 4, Whole(Len(tag.nums))), 8, tag.nums)

\* the scan of dumpList: do all elements share the id of the first?
SameType(values) == \A i \in 1..Len(values) : values[i].id = values[1].id

RECURSIVE dumpTagValue(_, _)
RECURSIVE dumpListItems(_, _, _)
RECURSIVE dumpCompoundItems(_, _)

\* NBTDumper.dumpList
dumpList(c, tag) ==
  LET values  == tag.list
      valueId == IF Len(values) > 0 THEN values[1].id ELSE TAG_End
  IN  IF SameType(values)
      THEN dumpListItems(dumpInteger(dumpByte(c, Whole(valueId)), 4, Whole(Len(values))),
                         values, FALSE)
      ELSE dumpListItems(dumpInteger(dumpByte(c, Whole(TAG_Compound)), 4, Whole(Len(values))),
                         values, TRUE)

\* the two element loops of dumpList: plain, or each element wrapped in
\* new CompoundTag(new Map([["", values[i]]]))
dumpListItems(c, values, wrap) ==
  IF values = <<>> THEN c
  ELSE dumpListItems(
         dumpTagValue(c, IF wrap THEN CompoundTag(<<Entry(<<>>, Head(values))>>)
                                 ELSE Head(values)),
         Tail(values), wrap)

\* the loop of dumpCompound over the entries, in list() order
dumpCompoundItems(c, entries) ==
  IF entries = <<>> THEN c
  ELSE LET e == Head(entries)
       IN  dumpCompoundItems(
             dumpTagValue(dumpString(dumpByte(c, Whole(e.value.id)), e.key), e.value),
             Tail(entries))

\* NBTDumper.dumpCompound
dumpCompound(c, tag) == dumpByte(dumpCompoundItems(c, tag.map), Whole(TAG_End))

\* NBTDumper.dumpTagValue
dumpTagValue(c, tag) ==
  CASE tag.id = TAG_Byte -> dumpByte(c, tag.num)
    [] tag.id = TAG_Short -> dumpInteger(c, 2, tag.num)
    [] tag.id = TAG_Int -> dumpInteger(c, 4, tag.num)
    [] tag.id = TAG_Long -> dumpInteger(c, 8, tag.num)
    [] tag.id = TAG_Float -> dumpFloat(c, 4, tag.num)
    [] tag.id = TAG_Double -> dumpFloat(c, 8, tag.num)
    [] tag.id = TAG_Byte_Array -> dumpByteArray(c, tag)
    [] tag.id = TAG_Int_Array -> dumpIntArray(c, tag)
    [] tag.id = TAG_Long_Array -> dumpLongArray(c, tag)
    [] tag.id = TAG_String -> dumpString(c, tag.text)
    [] tag.id = TAG_List -> dumpList(c, tag)
    [] tag.id = TAG_Compound -> dumpCompound(c, tag)
    [] OTHER -> [c EXCEPT !.err = "cannot dump tag id"]

\* NBTDumper.dumpTag
dumpTag(c, tag) == dumpTagValue(dumpByte(c, Whole(tag.id)), tag)

\* the DumpContext at the return of NBTDumper.dump()
dumpContext(r) ==
  IF r.id = TAG_Compound /\ Len(List(r)) = 1
  THEN LET name == List(r)[1]
       IN  dumpTagValue(dumpString(dumpByte(NewDumpContext, Whole(r.id)), name), Get(r, name))
  ELSE dumpTag(dumpString(dumpByte(NewDumpContext, Whole(TAG_Compound)), <<>>), r)

\* what a call returned: its value, or the exception it threw; bytes and
\* text for the calls that return a Uint8Array or a string, a tag for the rest
Bytes(v) == [ok |-> TRUE, value |-> v, err |-> ""]
NoBytes(e) == [ok |-> FALSE, value |-> <<>>, err |-> e]
Ok(t) == [ok |-> TRUE, value |-> t, err |-> ""]
Throw(e) == [ok |-> FALSE, value |-> Null, err |-> e]

\* NBTDumper.dump(): the bytes, or the exception
dump(r) ==
  LET c == dumpContext(r)
  IN  IF c.err # "" THEN NoBytes(c.err) ELSE Bytes(final(c))

-----------------------------------------------------------------------------
(* parser/nbt.ts: NBTParser                                                *)

\* A step of the parser: the value it returned with the position it left in
\* this.pos, or the exception it threw.
Read(v, pos) == [ok |-> TRUE, value |-> v, pos |-> pos, err |-> ""]
Fail(e) == [ok |-> FALSE, value |-> <<>>, pos |-> 0, err |-> e]

EOF == "unexpected end of file"
DUPLICATE == "compound already contains tag named"
BADTAG == "cannot parse tag id"
BADROOT == "invalid root tag"

\* data[i]: undefined (written -1) outside the array
At(d, i) == IF i >= 0 /\ i < Len(d) THEN d[i + 1] ELSE -1

\* NBTParser.expectByte(), called without an expected value
expectByte(d, pos) ==
  IF pos >= Len(d) THEN Fail(EOF) ELSE Read(At(d, pos), pos + 1)

\* NBTParser.readInteger(bytes)
readInteger(d, pos, bytes) ==
  IF pos + bytes >= Len(d) THEN Fail(EOF)
  ELSE Read(SignedOf(Slice(d, pos, pos + bytes)), pos + bytes)

\* NBTParser.readUnsignedInteger(bytes)
readUnsignedInteger(d, pos, bytes) ==
  IF pos + bytes >= Len(d) THEN Fail(EOF)
  ELSE Read(UnsignedOf(Slice(d, pos, pos + bytes)), pos + bytes)

\* NBTParser.readFLoat(bytes)
readFLoat(d, pos, bytes) ==
  IF pos + bytes >= Len(d) THEN Fail(EOF)
  ELSE Read(FloatOfBits(bytes, Slice(d, pos, pos + bytes)), pos + bytes)

\* this.data.slice(from, to) as slice resolves its arguments
DataSlice(d, from, to) ==
  LET lo == IF from < 0 THEN (IF from + Len(d) < 0 THEN 0 ELSE from + Len(d)) ELSE from
      hi == IF to < 0 THEN (IF to + Len(d) < 0 THEN 0 ELSE to + Len(d)) ELSE to
  IN  Slice(d, lo, hi)

\* NBTParser.parseByteArray(): Array.from of a Uint8Array slice
parseByteArray(d, pos) ==
  LET length == readInteger(d, pos, 4)
  IN  IF ~length.ok THEN length
      ELSE LET n == length.value.m
               p == length.pos + n
           IN  IF length.pos + n >= Len(d) THEN Fail(EOF)
               ELSE LET bytes == DataSlice(d, p - n, p)
                    IN  Read(ByteArrayTag([i \in 1..Len(bytes) |-> Whole(bytes[i])]), p)

RECURSIVE readIntegers(_, _, _, _, _)
\* for (i < length) items.push(this.readInteger(bytes))
readIntegers(d, pos, bytes, count, acc) ==
  IF count <= 0 THEN Read(acc, pos)
  ELSE LET r == readInteger(d, pos, bytes)
       IN  IF ~r.ok THEN r
           ELSE readIntegers(d, r.pos, bytes, count - 1, Append(acc, r.value))

\* NBTParser.parseIntArray()
parseIntArray(d, pos) ==
  LET length == readInteger(d, pos, 4)
  IN  IF ~length.ok THEN length
      ELSE LET r == readIntegers(d, length.pos, 4, length.value.m, <<>>)
           IN  IF ~r.ok THEN r ELSE Read(IntArrayTag(r.value), r.pos)

\* NBTParser.parseLongArray()
parseLongArray(d, pos) ==
  LET length == readInteger(d, pos, 4)
  IN  IF ~length.ok THEN length
      ELSE LET r == readIntegers(d, length.pos, 8, length.value.m, <<>>)
           IN  IF ~r.ok THEN r ELSE Read(LongArrayTag(r.value), r.pos)

\* NBTParser.parseString()
parseString(d, pos) ==
  LET length == readUnsignedInteger(d, pos, 2)
  IN  IF ~length.ok THEN length
      ELSE LET n == length.value.m
               p == length.pos + n
           IN  IF length.pos + n >= Len(d) THEN Fail(EOF)
               ELSE Read(StringTag(TextDecode(DataSlice(d, p - n, p))), p)

RECURSIVE parseFromTagType(_, _, _)
RECURSIVE parseListItems(_, _, _, _, _)
RECURSIVE parseCompoundItems(_, _, _)

\* the test parseList makes of each item: a CompoundTag whose only key is ""
IsWrapped(item) ==
  item.id = TAG_Compound /\ Len(List(item)) = 1 /\ List(item)[1] = <<>>

\* NBTParser.parseList()
parseList(d, pos) ==
  LET tagId == expectByte(d, pos)
  IN  IF ~tagId.ok THEN tagId
      ELSE LET length == readInteger(d, tagId.pos, 4)
           IN  IF ~length.ok THEN length
               ELSE LET r == parseListItems(d, length.pos, tagId.value, length.value.m, <<>>)
                    IN  IF ~r.ok THEN r
                        ELSE IF \A i \in 1..Len(r.value) : IsWrapped(r.value[i])
                        THEN Read(ListTag([i \in 1..Len(r.value) |-> Get(r.value[i], <<>>)]),
                                  r.pos)
                        ELSE Read(ListTag(r.value), r.pos)

\* the item loop of parseList
parseListItems(d, pos, tagId, count, acc) ==
  IF count <= 0 THEN Read(acc, pos)
  ELSE LET item == parseFromTagType(d, pos, tagId)
       IN  IF ~item.ok THEN item
           ELSE parseListItems(d, item.pos, tagId, count - 1, Append(acc, item.value))

\* NBTParser.parseCompound()
parseCompound(d, pos) == parseCompoundItems(d, pos, <<>>)

\* the loop of parseCompound with items.has(name) never consulted
parseCompoundItems_overwrite(d, pos, entries) ==
  LET tagId == expectByte(d, pos)
  IN  IF ~tagId.ok THEN tagId
      ELSE IF tagId.value = TAG_End THEN Read(CompoundTag(entries), tagId.pos)
      ELSE LET name == parseString(d, tagId.pos)
           IN  IF ~name.ok THEN name
               ELSE LET value == parseFromTagType(d, name.pos, tagId.value)
                    IN  IF ~value.ok THEN value
                        ELSE parseCompoundItems(d, value.pos,
                               MapSet(entries, name.value.text, value.value))

\* the while (true) loop of parseCompound
parseCompoundItems(d, pos, entries) ==
  LET tagId == expectByte(d, pos)
  IN  IF ~tagId.ok THEN tagId
      ELSE IF tagId.value = TAG_End THEN Read(CompoundTag(entries), tagId.pos)
      ELSE LET name == parseString(d, tagId.pos)
           IN  IF ~name.ok THEN name
               ELSE LET value == parseFromTagType(d, name.pos, tagId.value)
                    IN  IF ~value.ok THEN value
                        ELSE IF MapHas(entries, name.value.text) THEN Fail(DUPLICATE)
                        ELSE parseCompoundItems(d, value.pos,
                               MapSet(entries, name.value.text, value.value))

\* NBTParser.parseFromTagType(tagId)
parseFromTagType(d, pos, tagId) ==
  CASE tagId = TAG_Byte ->
         LET r == expectByte(d, pos)
         IN  IF ~r.ok THEN r ELSE Read(ByteTag(Whole(r.value)), r.pos)
    [] tagId = TAG_Short ->
         LET r == readInteger(d, pos, 2)
         IN  IF ~r.ok THEN r ELSE Read(ShortTag(r.value), r.pos)
    [] tagId = TAG_Int ->
         LET r == readInteger(d, pos, 4)
         IN  IF ~r.ok THEN r ELSE Read(IntTag(r.value), r.pos)
    [] tagId = TAG_Long ->
         LET r == readInteger(d, pos, 8)
         IN  IF ~r.ok THEN r ELSE Read(LongTag(r.value), r.pos)
    [] tagId = TAG_Float ->
         LET r == readFLoat(d, pos, 4)
         IN  IF ~r.ok THEN r ELSE Read(FloatTag(r.value), r.pos)
    [] tagId = TAG_Double ->
         LET r == readFLoat(d, pos, 8)
         IN  IF ~r.ok THEN r ELSE Read(DoubleTag(r.value), r.pos)
    [] tagId = TAG_Byte_Array -> parseByteArray(d, pos)
    [] tagId = TAG_Int_Array -> parseIntArray(d, pos)
    [] tagId = TAG_Long_Array -> parseLongArray(d, pos)
    [] tagId = TAG_String -> parseString(d, pos)
    [] tagId = TAG_List -> parseList(d, pos)
    [] tagId = TAG_Compound -> parseCompound(d, pos)
    [] OTHER -> Fail(BADTAG)

\* parse() with the wrapper dropped when the value is a Compound already
parse_unwrapCompound(d) ==
  LET tagId == expectByte(d, 0)
  IN  IF ~tagId.ok THEN tagId
      ELSE IF tagId.value = TAG_End THEN Fail(BADROOT)
      ELSE LET name == parseString(d, tagId.pos)
           IN  IF ~name.ok THEN name
               ELSE LET value == parseFromTagType(d, name.pos, tagId.value)
                    IN  IF ~value.ok THEN value
                        ELSE IF tagId.value = TAG_Compound THEN value
                        ELSE Read(CompoundTag(<<Entry(name.value.text, value.value)>>),
                                  value.pos)

\* NBTParser.parse(), with the position it stopped at
parse(d) ==
  LET tagId == expectByte(d, 0)
  IN  IF ~tagId.ok THEN tagId
      ELSE IF tagId.value = TAG_End THEN Fail(BADROOT)
      ELSE LET name == parseString(d, tagId.pos)
           IN  IF ~name.ok THEN name
               ELSE LET value == parseFromTagType(d, name.pos, tagId.value)
                    IN  IF ~value.ok THEN value
                        ELSE Read(CompoundTag(<<Entry(name.value.text, value.value)>>),
                                  value.pos)

\* index.ts parseNBT(data): the tag, or the exception
parseNBT(d) ==
  LET r == parse(d)
  IN  IF r.ok THEN Ok(r.value) ELSE Throw(r.err)

-----------------------------------------------------------------------------
(* The trees the binary specifications start from                          *)

MaxList == 2      \* the longest List of the input trees
MaxEntries == 2   \* the most entries of a Compound of the input trees

\* sequences over S of length at most n
SeqUpTo(S, n) == UNION {[1..k -> S] : k \in 0..n}

\* sequences without a repeated element
Distinct(s) == \A i, j \in 1..Len(s) : i # j => s[i] # s[j]

Keys == {<<>>, Str(<<"a">>)}

Leaves ==
  { ByteTag(Whole(-128)), ByteTag(Whole(-1)), ByteTag(Whole(5)),
    ShortTag(Whole(-2)), IntTag(Whole(1)), IntTag(Whole(-70000)), LongTag(Whole(-3)),
    FloatTag(Num(15, 1)), DoubleTag(Whole(-2)),
    StringTag(<<>>), StringTag(Str(<<"a">>)), StringTag(<<233>>),
    ByteArrayTag(<<>>), ByteArrayTag(<<Whole(-1), Whole(127)>>),
    IntArrayTag(<<Whole(7)>>), LongArrayTag(<<Whole(-1)>>) }

\* the Lists and Compounds over a set of element tags
ListsOf(S) == {ListTag(ts) : ts \in SeqUpTo(S, MaxList)}
CompoundsOver(K, S) ==
  {CompoundTag([i \in 1..Len(ks) |-> Entry(ks[i], vs[i])]) :
     <<ks, vs>> \in {kv \in SeqUpTo(K, MaxEntries) \X SeqUpTo(S, MaxEntries) :
                       Len(kv[1]) = Len(kv[2]) /\ Distinct(kv[1])}}
CompoundsOf(S) == CompoundsOver(Keys, S)

\* one level of containers over the leaves
Containers == ListsOf(Leaves) \cup CompoundsOf(Leaves)
Values == Leaves \cup Containers

\* a second level: a container of one first-level container
Nested ==
  {ListTag(<<v>>) : v \in Containers}
  \cup {CompoundTag(<<Entry(k, v)>>) : k \in Keys, v \in Containers}

Roots == Values \cup Nested

\* no call made yet / variable not used by the specification
Idle == Throw("not called")
NoData == NoBytes("not called")

-----------------------------------------------------------------------------
(* SpecBinary: dump(root), then parseNBT of the bytes it returned          *)

TextIdle == /\ source = NoData /\ parsed = Idle
\* the context of a specification that makes no DumpContext call of its own
NoContext == [buffer |-> <<>>, pointer |-> 0, view |-> 0, err |-> "not used"]
ContextIdle == /\ ctx = NoContext /\ appended = <<>>
CompoundIdle == /\ items = <<>> /\ log = <<>>

InitBinary ==
  /\ root \in Roots
  /\ data = NoData
  /\ result = Idle
  /\ TextIdle /\ ContextIdle /\ CompoundIdle

\* index.ts dump(tag)
Dump ==
  /\ data = NoData
  /\ data' = dump(root)
  /\ UNCHANGED <<root, result, source, parsed, ctx, appended, items, log>>

\* index.ts parseNBT(data)
ParseNBT ==
  /\ data.ok /\ result = Idle
  /\ result' = parseNBT(data.value)
  /\ UNCHANGED <<root, data, source, parsed, ctx, appended, items, log>>

NextBinary == Dump \/ ParseNBT

SpecBinary == InitBinary /\ [][NextBinary]_vars


RECURSIVE Homogeneous(_)
\* every List of the tree holds elements of one tag id
Homogeneous(tag) ==
  /\ SameType(tag.list)
  /\ \A i \in 1..Len(tag.list) : Homogeneous(tag.list[i])
  /\ \A i \in 1..Len(tag.map) : Homogeneous(tag.map[i].value)

SingleEntry(tag) == tag.id = TAG_Compound /\ Len(List(tag)) = 1

\* the plain value encoding of a tag: what dumpTagValue appends for it
ValueBytes(tag) == final(dumpTagValue(NewDumpContext, tag))

\* a name as the format lays it out: 16-bit length, then the UTF-8 bytes
NameBytes(name) == BigEndian(2, Len(TextEncode(name))) \o TextEncode(name)

\* C1 (as claimed): for a tree with homogeneous Lists and unique keys,
\* parseNBT(dump(x)) succeeds and yields x itself when x is a Compound with
\* exactly one entry, and the Compound {"": x} for every other root.
C1_BinaryRoundTrip ==
  (result # Idle /\ Homogeneous(root)) =>
     result = Ok(IF SingleEntry(root) THEN root ELSE CompoundTag(<<Entry(<<>>, root)>>))

\* C4 (as claimed): dump of a root Compound with exactly one entry k -> v
\* returns the tag id of v, then k as a 16-bit length-prefixed name, then the
\* plain value encoding of v, and nothing else.
C4_SingleEntryLayout ==
  (data # NoData /\ SingleEntry(root)) =>
     LET k == List(root)[1]
         v == Get(root, k)
     IN  data = Bytes(<<v.id>> \o NameBytes(k) \o ValueBytes(v))

-----------------------------------------------------------------------------
(* SpecValue: dumpTagValue(ctx, root) into a fresh context, then            *)
(* parseFromTagType(root.getId()) over the bytes it appended               *)

InitValue ==
  /\ root \in Roots
  /\ data = NoData
  /\ result = Idle
  /\ TextIdle /\ ContextIdle /\ CompoundIdle

\* NBTDumper.dumpTagValue on a new DumpContext, and ctx.final()
DumpTagValue ==
  /\ data = NoData
  /\ LET c == dumpTagValue(NewDumpContext, root)
     IN  data' = IF c.err # "" THEN NoBytes(c.err) ELSE Bytes(final(c))
  /\ UNCHANGED <<root, result, source, parsed, ctx, appended, items, log>>

\* NBTParser.parseFromTagType on a new NBTParser over the bytes
ParseFromTagType ==
  /\ data.ok /\ result = Idle
  /\ LET r == parseFromTagType(data.value, 0, root.id)
     IN  result' = IF r.ok THEN Ok(r.value) ELSE Throw(r.err)
  /\ UNCHANGED <<root, data, source, parsed, ctx, appended, items, log>>

NextValue == DumpTagValue \/ ParseFromTagType

SpecValue == InitValue /\ [][NextValue]_vars

Heterogeneous(tag) == tag.id = TAG_List /\ ~SameType(tag.list)

\* C2 (as claimed): for a List whose elements carry at least two distinct
\* tag ids, dumpList emits tag id Compound, the count, and each element
\* wrapped in a single-entry Compound keyed by the empty string, and
\* parseList over those bytes returns the List of the original elements,
\* unwrapped, in order.
C2_HeterogeneousListRoundTrip ==
  Heterogeneous(root) =>
     /\ data # NoData =>
          data = Bytes(<<TAG_Compound>> \o BigEndian(4, Len(root.list))
                       \o Concat([i \in 1..Len(root.list) |->
                                    ValueBytes(CompoundTag(<<Entry(<<>>, root.list[i])>>))]))
     /\ result # Idle => result = Ok(root)

\* the trees whose only payload is Byte values and ByteArray elements
OnlyBytes(tag) ==
  \/ tag.id = TAG_Byte
  \/ /\ tag.id = TAG_Compound
     /\ \A i \in 1..Len(tag.map) : tag.map[i].value.id \in {TAG_Byte, TAG_Byte_Array}

\* C5 (as claimed): every Byte value and every ByteArray element in
\* -128..127 decodes, from the dumper's output for it, to the same signed
\* value.
C5_SignedBytesSurvive ==
  (OnlyBytes(root) /\ result # Idle) => result = Ok(root)

-----------------------------------------------------------------------------
(* SpecDecode: parseNBT of an arbitrary buffer                             *)

MaxBuffer == 6   \* the longest buffer handed to parseNBT

\* the bytes of the buffers: End, Byte, Short, Compound, two bytes that are
\* no tag id (13 and "a")
BufferBytes == {0, 1, 2, 10, 13, 97}

Buffers == SeqUpTo(BufferBytes, MaxBuffer)

InitDecode ==
  /\ root = Null
  /\ data \in {Bytes(b) : b \in Buffers}
  /\ result = Idle
  /\ TextIdle /\ ContextIdle /\ CompoundIdle

SpecDecode == InitDecode /\ [][ParseNBT]_vars

\* the name a buffer carries after its first byte, and where its value starts
NameLength(d) == Unsigned(Slice(d, 1, 3))
NameRead(d) == TextDecode(Slice(d, 3, 3 + NameLength(d)))
ValueStart(d) == 3 + NameLength(d)

\* C6: parseNBT reads one (tag id, name, value) triple from offset 0; it
\* throws when the tag id is End or none of 1..12; and whenever it returns,
\* it returns a Compound with exactly one entry, the read name mapped to
\* the read value, also when that value is itself a Compound.
C6_TopLevelDecode ==
  result # Idle =>
    LET d == data.value
    IN  /\ (d # <<>> /\ d[1] \notin 1..12) => ~result.ok
        /\ result.ok =>
             /\ result.value.id = TAG_Compound
             /\ Len(result.value.map) = 1
             /\ result.value.map[1].key = NameRead(d)
             /\ LET v == parseFromTagType(d, ValueStart(d), d[1])
                IN  v.ok /\ result.value.map[1].value = v.value

\* C6 witness: a decode that returned, of a buffer whose name is "a" and
\* whose value is a Compound
C6_Witness ==
  /\ result.ok
  /\ data.value[1] = TAG_Compound
  /\ result.value.map[1].key = Str(<<"a">>)
  /\ result.value.map[1].value.id = TAG_Compound

-----------------------------------------------------------------------------
(* SpecDump: a DumpContext under a sequence of appends                     *)

MaxCalls == 4   \* the most appends made on one DumpContext

\* the lengths of the Uint8Arrays handed to dumpRaw: short of the initial
\* capacity, and longer than it
RawLengths == {250, 300}

BinaryIdle == /\ root = Null /\ data = NoData /\ result = Idle

InitDump ==
  /\ ctx = NewDumpContext
  /\ appended = <<>>
  /\ BinaryIdle /\ TextIdle /\ CompoundIdle

\* the dump goes on: no call has thrown, and the bound on calls is not reached
Dumping(calls) == ctx.err = "" /\ calls < MaxCalls

\* the number of append calls made so far is carried by the history: one
\* marker per call
Calls == Len(SelectSeq(appended, LAMBDA b : b < 0))
Content(h) == SelectSeq(h, LAMBDA b : b >= 0)
Mark == <<-1>>

\* the payload of the next append: bytes that differ by position
Payload(n) == [i \in 1..n |-> (Len(Content(appended)) + i) % 251]

\* ctx.dumpByte(byte)
DumpByte ==
  /\ Dumping(Calls)
  /\ ctx' = dumpByte(ctx, Whole(Payload(1)[1]))
  /\ appended' = appended \o Mark \o Payload(1)
  /\ UNCHANGED <<root, data, result, source, parsed, items, log>>

\* ctx.dumpInteger(bytes, value) and ctx.dumpUnsignedInteger(bytes, value)
DumpInteger ==
  /\ Dumping(Calls)
  /\ \E bytes \in {2, 4, 8} :
       /\ ctx' = dumpInteger(ctx, bytes, Whole(Unsigned(Payload(2))))
       /\ appended' = appended \o Mark \o [i \in 1..(bytes - 2) |-> 0] \o Payload(2)
  /\ UNCHANGED <<root, data, result, source, parsed, items, log>>

\* ctx.dumpFloat(bytes, value)
DumpFloat ==
  /\ Dumping(Calls)
  /\ \E bytes \in {4, 8} :
       /\ ctx' = dumpFloat(ctx, bytes, Num(15, 1))
       /\ appended' = appended \o Mark \o FloatBits(bytes, Num(15, 1))
  /\ UNCHANGED <<root, data, result, source, parsed, items, log>>

\* ctx.dumpRaw(bytes)
DumpRaw ==
  /\ Dumping(Calls)
  /\ \E n \in RawLengths :
       /\ ctx' = dumpRaw(ctx, Payload(n))
       /\ appended' = appended \o Mark \o Payload(n)
  /\ UNCHANGED <<root, data, result, source, parsed, items, log>>

NextDump == DumpByte \/ DumpInteger \/ DumpFloat \/ DumpRaw

SpecDump == InitDump /\ [][NextDump]_vars

\* C9 (as claimed): no append fails, whatever the length of the output: the
\* buffer grows so that the append fits, later integer and float writes
\* succeed, and final() returns exactly the bytes appended, in order.
C9_AppendsNeverFail ==
  /\ ctx.err = ""
  /\ final(ctx) = Content(appended)

-----------------------------------------------------------------------------
(* tags.ts, util.ts: the textual rendering                                 *)

Digits == Str(<<"0", "1", "2", "3", "4", "5", "6", "7", "8", "9">>)

IsDigit(c) == c >= Code("0") /\ c <= Code("9")
IsLower(c) == c >= Code("a") /\ c <= Code("z")
IsUpper(c) == c >= Code("A") /\ c <= Code("Z")
IsLetter(c) == IsLower(c) \/ IsUpper(c)

RECURSIVE NatToString(_)
\* the decimal digits of a natural number
NatToString(n) ==
  IF n < 10 THEN <<Digits[n + 1]>> ELSE Append(NatToString(n \div 10), Digits[(n % 10) + 1])

\* `${value}` for a number or a bigint of the model
NumToString(n) ==
  IF n.e < 0 THEN Str(<<"N", "a", "N">>)
  ELSE LET a    == IF n.m < 0 THEN -n.m ELSE n.m
           sign == IF n.m < 0 THEN Str(<<"-">>) ELSE <<>>
           frac == NatToString(a % Pow10(n.e))
       IN  IF n.e = 0 THEN sign \o NatToString(a)
           ELSE sign \o NatToString(a \div Pow10(n.e)) \o Str(<<".">>)
                \o [i \in 1..(n.e - Len(frac)) |-> Code("0")] \o frac

\* VALID_QUOTELESS_STRING_RE.test(text): /^[A-Za-z][A-Za-z0-9]*$/
VALID_QUOTELESS_STRING_RE(text) ==
  /\ text # <<>>
  /\ IsLetter(text[1])
  /\ \A i \in 2..Len(text) : IsLetter(text[i]) \/ IsDigit(text[i])

\* VALID_QUOTELESS_KEY_RE.test(text): /^[A-Za-z][A-Za-z_0-9\+\-\.\_]*$/
VALID_QUOTELESS_KEY_RE(text) ==
  /\ text # <<>>
  /\ IsLetter(text[1])
  /\ \A i \in 2..Len(text) :
       \/ IsLetter(text[i]) \/ IsDigit(text[i])
       \/ text[i] \in {Code("_"), Code("+"), Code("-"), Code(".")}

\* text.replaceAll("\\", "\\\\").replaceAll('"', '\\"')
Escaped(text) ==
  Concat([i \in 1..Len(text) |->
            IF text[i] = Code("BS") \/ text[i] = Code("DQ")
            THEN <<Code("BS"), text[i]>> ELSE <<text[i]>>])

\* stringifyTextEscaped(text, quotelessRegex); quoteless is the regex's test
stringifyTextEscaped(text, quoteless) ==
  IF quoteless THEN text ELSE <<Code("DQ")>> \o Escaped(text) \o <<Code("DQ")>>

RECURSIVE Join(_, _)
\* array.join(sep)
Join(ss, sep) ==
  IF ss = <<>> THEN <<>>
  ELSE IF Len(ss) = 1 THEN ss[1]
  ELSE ss[1] \o sep \o Join(Tail(ss), sep)

CommaSpace == Str(<<",", " ">>)

RECURSIVE stringify(_)
\* Tag.stringify() of each class
stringify(tag) ==
  CASE tag.id = TAG_Byte -> NumToString(tag.num) \o Str(<<"b">>)
    [] tag.id = TAG_Short -> NumToString(tag.num) \o Str(<<"s">>)
    [] tag.id = TAG_Int -> NumToString(tag.num)
    [] tag.id = TAG_Long -> NumToString(tag.num) \o Str(<<"l">>)
    [] tag.id = TAG_Float -> NumToString(tag.num) \o Str(<<"f">>)
    [] tag.id = TAG_Double -> NumToString(tag.num) \o Str(<<"d">>)
    [] tag.id = TAG_String ->
         stringifyTextEscaped(tag.text, VALID_QUOTELESS_STRING_RE(tag.text))
    [] tag.id = TAG_Compound ->
         Str(<<"{">>)
         \o Join([i \in 1..Len(tag.map) |->
                    stringifyTextEscaped(tag.map[i].key, VALID_QUOTELESS_KEY_RE(tag.map[i].key))
                    \o Str(<<":", " ">>) \o stringify(tag.map[i].value)],
                 CommaSpace)
         \o Str(<<"}">>)
    [] tag.id = TAG_List ->
         Str(<<"[">>) \o Join([i \in 1..Len(tag.list) |-> stringify(tag.list[i])], CommaSpace)
         \o Str(<<"]">>)
    [] tag.id = TAG_Byte_Array ->
         Str(<<"[", "B", ";", " ">>)
         \o Join([i \in 1..Len(tag.nums) |-> NumToString(tag.nums[i]) \o Str(<<"b">>)], CommaSpace)
         \o Str(<<"]">>)
    [] tag.id = TAG_Int_Array ->
         Str(<<"[", "I", ";", " ">>)
         \o Join([i \in 1..Len(tag.nums) |-> NumToString(tag.nums[i])], CommaSpace)
         \o Str(<<"]">>)
    [] tag.id = TAG_Long_Array ->
         Str(<<"[", "L", ";", " ">>)
         \o Join([i \in 1..Len(tag.nums) |-> NumToString(tag.nums[i]) \o Str(<<"l">>)], CommaSpace)
         \o Str(<<"]">>)

-----------------------------------------------------------------------------
(* SpecCompound: put and delete calls on a CompoundTag                     *)

MaxOps == 5   \* the most put/delete calls made on the CompoundTag

Names == {<<>>, Str(<<"a">>)}
PutValues == {IntTag(Whole(1)), StringTag(Str(<<"x">>))}

\* a logged call; a delete logs the missing indicator as its tag
Call(op, name, tag) == [op |-> op, name |-> name, tag |-> tag]

InitCompound ==
  /\ items = <<>>
  /\ log = <<>>
  /\ BinaryIdle /\ TextIdle /\ ContextIdle

\* compound.put(name, tag)
PutCall ==
  /\ Len(log) < MaxOps
  /\ \E name \in Names, tag \in PutValues :
       /\ items' = Put(CompoundTag(items), name, tag).map
       /\ log' = Append(log, Call("put", name, tag))
  /\ UNCHANGED <<root, data, result, source, parsed, ctx, appended>>

\* compound.delete(name)
DeleteCall ==
  /\ Len(log) < MaxOps
  /\ \E name \in Names :
       /\ items' = Delete(CompoundTag(items), name).map
       /\ log' = Append(log, Call("delete", name, Null))
  /\ UNCHANGED <<root, data, result, source, parsed, ctx, appended>>

NextCompound == PutCall \/ DeleteCall

SpecCompound == InitCompound /\ [][NextCompound]_vars

\* from the log alone: the last call on a name (0 when none), whether the
\* name is present, and the put that made it present
LastCall(name) ==
  LET on == {i \in 1..Len(log) : log[i].name = name}
  IN  IF on = {} THEN 0 ELSE CHOOSE i \in on : \A j \in on : j <= i
Present(name) == LastCall(name) > 0 /\ log[LastCall(name)].op = "put"
LastDelete(name) ==
  LET on == {i \in 1..Len(log) : log[i].name = name /\ log[i].op = "delete"}
  IN  IF on = {} THEN 0 ELSE CHOOSE i \in on : \A j \in on : j <= i
Inserted(name) ==
  CHOOSE i \in 1..Len(log) :
    /\ log[i].name = name /\ log[i].op = "put" /\ i > LastDelete(name)
    /\ \A j \in (LastDelete(name) + 1)..(i - 1) : log[j].name # name

\* the rendering of entries in the order of the given keys
RenderInOrder(tag, keys) ==
  Str(<<"{">>)
  \o Join([i \in 1..Len(keys) |->
             stringifyTextEscaped(keys[i], VALID_QUOTELESS_KEY_RE(keys[i]))
             \o Str(<<":", " ">>) \o stringify(Get(tag, keys[i]))],
          CommaSpace)
  \o Str(<<"}">>)

\* C10: after any sequence of put and delete calls, list() holds every
\* present key exactly once, in the order of the insertions that made them
\* present; get(name) is the tag of the most recent put of the name not
\* followed by a delete, and null otherwise; and stringify() lists the
\* entries in the order of list().
C10_CompoundOrder ==
  LET tag  == CompoundTag(items)
      keys == List(tag)
  IN  /\ \A name \in Names : Present(name) <=> (\E i \in 1..Len(keys) : keys[i] = name)
      /\ \A i, j \in 1..Len(keys) : i < j => Inserted(keys[i]) < Inserted(keys[j])
      /\ \A name \in Names :
           Get(tag, name) = IF Present(name) THEN log[LastCall(name)].tag ELSE Null
      /\ stringify(tag) = RenderInOrder(tag, keys)

\* C10 witness: a key overwritten in place before a later key, and a key
\* deleted and put again, now last
C10_Witness ==
  /\ Len(items) = 2
  /\ \E i, j, k \in 1..Len(log) :
       /\ i < j /\ j < k
       /\ log[i].op = "put" /\ log[i].name = items[1].key
       /\ log[j].op = "put" /\ log[j].name = items[2].key
       /\ log[k].op = "put" /\ log[k].name = items[1].key /\ log[k].tag # log[i].tag
  /\ \E p, d \in 1..Len(log) :
       /\ p < d
       /\ log[p].op = "put" /\ log[p].name = items[2].key
       /\ log[d].op = "delete" /\ log[d].name = items[2].key

-----------------------------------------------------------------------------
(* parser/snbt.ts: Lexer                                                   *)

\* TokenKind
Kind_EOF == "EOF"
Kind_NUMBER == "NUMBER"
Kind_SUFFIX == "SUFFIX"
Kind_STRING == "STRING"
Kind_BOOLEAN == "BOOLEAN"
Kind_DELIMITER == "DELIMITER"

\* new Token(kind, value)
Token(kind, value) == [kind |-> kind, value |-> value]

\* the keys of CONSTANT_TOKENS
CONSTANT_TOKENS == Str(<<"{", "}", "[", "]", ":", ",", ";">>)

\* NUMBER_SUFFIXES, as the source lists it: "d" twice, no "D"
NUMBER_SUFFIXES == Str(<<"b", "B", "s", "S", "i", "I", "l", "L", "f", "F", "d", "d">>)

SKIP_CHARS == Str(<<" ", "TAB", "LF", "CR">>)

NUMBER_SIGN_PLUS == Code("+")
NUMBER_SIGN_MINUS == Code("-")
IDENTIFIER_OTHER == Str(<<"_", "-", ".", "+">>)
FLOAT_SEPARATOR == Code(".")

\* source.charCodeAt(i): NaN (written -1) outside the string
CharCodeAt(src, i) == IF i >= 0 /\ i < Len(src) THEN src[i + 1] ELSE -1

\* isIdentifierChar(charCode)
isIdentifierChar(c) == IsLower(c) \/ IsUpper(c) \/ Includes(IDENTIFIER_OTHER, c)

\* a Lexer: pos and lastNumber
NewLexer == [pos |-> 0, lastNumber |-> -777]

\* what next() did: the token with the lexer it left, or the error thrown
Lexed(tok, lx) == [ok |-> TRUE, tok |-> tok, lx |-> lx, err |-> ""]
LexFail(e) == [ok |-> FALSE, tok |-> Token(Kind_EOF, <<>>), lx |-> NewLexer, err |-> e]

LEX_EOF == "unexpected end of file"
LEX_EOF_ESCAPE == "unexepected end of file"
LEX_CHAR == "unexpected character"

\* sequencing of two steps: an exception thrown by the first propagates
Then(r, Rest(_)) == IF r.ok THEN Rest(r) ELSE r

RECURSIVE NumberEnd(_, _, _)
\* the while loop of the number branch: the position after the literal
NumberEnd(src, pos, isFloat) ==
  LET c == CharCodeAt(src, pos)
  IN  IF IsDigit(c) \/ (~isFloat /\ c = FLOAT_SEPARATOR)
      THEN NumberEnd(src, pos + 1, isFloat \/ c = FLOAT_SEPARATOR)
      ELSE pos

RECURSIVE IdentifierEnd(_, _)
\* the while loop of the identifier branch
IdentifierEnd(src, pos) ==
  IF isIdentifierChar(CharCodeAt(src, pos)) THEN IdentifierEnd(src, pos + 1) ELSE pos

RECURSIVE QuotedString(_, _, _, _)
\* the charLoop of the quoted-string branch, from the character after the opener
QuotedString(src, pos, opener, content) ==
  IF pos >= Len(src) THEN LexFail(LEX_EOF)
  ELSE IF CharCodeAt(src, pos) = Code("BS") /\ pos + 1 >= Len(src) THEN LexFail(LEX_EOF_ESCAPE)
  ELSE IF /\ CharCodeAt(src, pos) = Code("BS")
          /\ CharCodeAt(src, pos + 1) \in {Code("DQ"), Code("SQ")}
       THEN QuotedString(src, pos + 2, opener, Append(content, opener))
  ELSE IF CharCodeAt(src, pos) = opener
       THEN Lexed(Token(Kind_STRING, content), [pos |-> pos + 1, lastNumber |-> -777])
  ELSE QuotedString(src, pos + 1, opener, Append(content, CharCodeAt(src, pos)))

RECURSIVE next(_, _)
\* Lexer.next()
next(src, lx) ==
  LET pos      == lx.pos
      charCode == CharCodeAt(src, pos)
      at(p)    == [lx EXCEPT !.pos = p]
  IN  IF pos >= Len(src) THEN Lexed(Token(Kind_EOF, <<>>), lx)
      ELSE IF Includes(SKIP_CHARS, charCode) THEN next(src, at(pos + 1))
      ELSE IF Includes(CONSTANT_TOKENS, charCode)
           THEN Lexed(Token(Kind_DELIMITER, <<charCode>>), at(pos + 1))
      ELSE IF lx.lastNumber = pos - 1 /\ Includes(NUMBER_SUFFIXES, charCode)
           THEN Lexed(Token(Kind_SUFFIX, <<charCode>>), at(pos + 1))
      ELSE IF \/ charCode = NUMBER_SIGN_PLUS \/ charCode = NUMBER_SIGN_MINUS
              \/ IsDigit(charCode)
           THEN LET end == NumberEnd(src, pos + 1, FALSE)
                IN  Lexed(Token(Kind_NUMBER, Slice(src, pos, end)),
                          [pos |-> end, lastNumber |-> end - 1])
      ELSE IF isIdentifierChar(charCode)
           THEN LET end   == IdentifierEnd(src, pos)
                    value == Slice(src, pos, end)
                IN  Lexed(Token(IF value = Str(<<"t", "r", "u", "e">>)
                                   \/ value = Str(<<"f", "a", "l", "s", "e">>)
                                THEN Kind_BOOLEAN ELSE Kind_STRING, value),
                          at(end))
      ELSE IF charCode = Code("DQ") \/ charCode = Code("SQ")
           THEN Then(QuotedString(src, pos + 1, charCode, <<>>),
                     LAMBDA q : Lexed(q.tok, at(q.lx.pos)))
      ELSE LexFail(LEX_CHAR)

-----------------------------------------------------------------------------
(* parser/snbt.ts: SNBTParser                                              *)

\* An SNBTParser: the current token and its Lexer
Parser(tok, lx) == [current |-> tok, lexer |-> lx]

\* what a parser method did: the tag or token it returned with the parser it
\* left, or the error thrown
Parsed(tag, ps) == [ok |-> TRUE, tag |-> tag, ps |-> ps, err |-> ""]
Eaten(tok, ps) == [ok |-> TRUE, tok |-> tok, ps |-> ps, err |-> ""]
Abort(e) == [ok |-> FALSE, tag |-> Null, tok |-> Token(Kind_EOF, <<>>), err |-> e]

UNEXPECTED_TOKEN == "expected token"
UNEXPECTED_BOOLEAN == "unexpected boolean"
BOOLEAN_AS_FLOAT == "true|false cannot be used as floating point values"
NOT_WHOLE == "expected a whole number"
NOT_FLOAT == "expected a floating point number"
BAD_SUFFIX == "expected a number with the suffix"
INVALID_SUFFIX == "invalid suffix"
UNEXPECTED_ITEM == "expected {, [, a number, an identifier, or a boolean"
BIGINT_SYNTAX == "SyntaxError: Cannot convert to a BigInt"

True == Str(<<"t", "r", "u", "e">>)

\* SNBTParser.matches(kind, value); an omitted value is written <<>>, which
\* the test !value treats like the empty string
matches(ps, kind, value) ==
  ps.current.kind = kind /\ (value = <<>> \/ ps.current.value = value)

\* SNBTParser.eat(kind, value)
eat(src, ps, kind, value) ==
  IF ~matches(ps, kind, value) THEN Abort(UNEXPECTED_TOKEN)
  ELSE Then(next(src, ps.lexer), LAMBDA n : Eaten(ps.current, Parser(n.tok, n.lx)))

RECURSIVE DigitsValue(_)
\* the value of a run of decimal digits
DigitsValue(ds) ==
  IF ds = <<>> THEN 0
  ELSE DigitsValue(SubSeq(ds, 1, Len(ds) - 1)) * 10 + (ds[Len(ds)] - Code("0"))

\* the parts of a number token: the sign, the digits before and after the "."
Negative(lit) == lit # <<>> /\ lit[1] = NUMBER_SIGN_MINUS
Unsigned_(lit) ==
  IF lit # <<>> /\ lit[1] \in {NUMBER_SIGN_PLUS, NUMBER_SIGN_MINUS} THEN Tail(lit) ELSE lit
HasDot(lit) == Includes(lit, FLOAT_SEPARATOR)
DotAt(lit) == CHOOSE i \in 1..Len(lit) : lit[i] = FLOAT_SEPARATOR
IntPart(lit) == IF HasDot(lit) THEN SubSeq(lit, 1, DotAt(lit) - 1) ELSE lit
FracPart(lit) == IF HasDot(lit) THEN SubSeq(lit, DotAt(lit) + 1, Len(lit)) ELSE <<>>

\* Number(text) of a number token: NaN when the token has no digit
NumberOf(text) ==
  IF Unsigned_(text) \in {<<>>, <<FLOAT_SEPARATOR>>} THEN NaN
  ELSE Normalize(Num((IF Negative(text) THEN -1 ELSE 1)
                       * (DigitsValue(IntPart(Unsigned_(text)))
                            * Pow10(Len(FracPart(Unsigned_(text))))
                          + DigitsValue(FracPart(Unsigned_(text)))),
                     Len(FracPart(Unsigned_(text)))))

\* whether BigInt(text) of a number token throws a SyntaxError
BigIntThrows(text) == HasDot(text) \/ Unsigned_(text) = <<>>

\* BigInt(text) when it does not throw
BigIntOf(text) ==
  Whole((IF Negative(text) THEN -1 ELSE 1) * DigitsValue(Unsigned_(text)))

\* the end of eatNumberSuffixes: the suffix is checked, the literal returned
CheckSuffix(number, suffix, suffixes) ==
  IF ~Includes(suffixes, suffix.tok.value[1]) THEN Abort(BAD_SUFFIX)
  ELSE Eaten(number.tok, suffix.ps)

\* SNBTParser.eatNumberSuffixes(kind, ...suffixes): the literal is the value of
\* the token returned
eatNumberSuffixes(src, ps, kind, suffixes) ==
  IF matches(ps, Kind_BOOLEAN, <<>>)
  THEN IF ~Includes(suffixes, Code("b")) /\ ~Includes(suffixes, Code("B"))
       THEN Abort(UNEXPECTED_BOOLEAN)
       ELSE IF kind = "float" THEN Abort(BOOLEAN_AS_FLOAT)
       ELSE Then(eat(src, ps, Kind_BOOLEAN, <<>>),
                 LAMBDA b : Eaten(Token(Kind_NUMBER,
                                        IF b.tok.value = True THEN Str(<<"1">>)
                                        ELSE Str(<<"0">>)),
                                  b.ps))
  ELSE Then(eat(src, ps, Kind_NUMBER, <<>>),
            LAMBDA number :
              IF kind = "int" /\ HasDot(number.tok.value) THEN Abort(NOT_WHOLE)
              ELSE IF kind = "float" /\ ~HasDot(number.tok.value) THEN Abort(NOT_FLOAT)
              ELSE IF ~matches(number.ps, Kind_SUFFIX, <<>>)
              THEN CheckSuffix(number,
                               Eaten(Token(Kind_SUFFIX,
                                           IF HasDot(number.tok.value)
                                           THEN Str(<<"f">>) ELSE Str(<<"i">>)),
                                     number.ps),
                               suffixes)
              ELSE Then(eat(src, number.ps, Kind_SUFFIX, <<>>),
                        LAMBDA suffix : CheckSuffix(number, suffix, suffixes)))

\* the switch of parseNumber on the suffix
SuffixedNumber(text, value, c, ps) ==
  CASE c \in {Code("b"), Code("B")} -> Parsed(ByteTag(value), ps)
    [] c \in {Code("s"), Code("S")} -> Parsed(ShortTag(value), ps)
    [] c \in {Code("i"), Code("I")} -> Parsed(IntTag(value), ps)
    [] c \in {Code("l"), Code("L")} ->
         IF BigIntThrows(text) THEN Abort(BIGINT_SYNTAX)
         ELSE Parsed(LongTag(BigIntOf(text)), ps)
    [] c \in {Code("f"), Code("F")} -> Parsed(FloatTag(value), ps)
    [] c \in {Code("d"), Code("D")} -> Parsed(DoubleTag(value), ps)
    [] OTHER -> Abort(INVALID_SUFFIX)

\* SNBTParser.parseNumber()
parseNumber(src, ps) ==
  Then(eat(src, ps, Kind_NUMBER, <<>>),
       LAMBDA number :
         IF ~matches(number.ps, Kind_SUFFIX, <<>>)
         THEN IF HasDot(number.tok.value)
              THEN Parsed(FloatTag(NumberOf(number.tok.value)), number.ps)
              ELSE Parsed(IntTag(NumberOf(number.tok.value)), number.ps)
         ELSE Then(eat(src, number.ps, Kind_SUFFIX, <<>>),
                   LAMBDA suffix :
                     SuffixedNumber(number.tok.value, NumberOf(number.tok.value),
                                    suffix.tok.value[1], suffix.ps)))

\* SNBTParser.parseString()
parseString_(src, ps) ==
  Then(eat(src, ps, Kind_STRING, <<>>), LAMBDA t : Parsed(StringTag(t.tok.value), t.ps))

\* SNBTParser.parseBoolean()
parseBoolean(src, ps) ==
  Then(eat(src, ps, Kind_BOOLEAN, <<>>),
       LAMBDA t : Parsed(ByteTag(Whole(IF t.tok.value = True THEN 1 ELSE 0)), t.ps))

RECURSIVE parseItem(_, _)
RECURSIVE parseCompoundEntries(_, _, _, _)
RECURSIVE parseListEntries(_, _, _, _, _)

\* the "," that separates an entry from the one before it
Separator(src, ps, first) ==
  IF first THEN Eaten(ps.current, ps) ELSE eat(src, ps, Kind_DELIMITER, Str(<<",">>))

\* the loop of SNBTParser.parseCompound(): the items so far, the first flag
parseCompoundEntries(src, ps, entries, first) ==
  IF matches(ps, Kind_DELIMITER, Str(<<"}">>)) THEN Parsed(CompoundTag(entries), ps)
  ELSE Then(Separator(src, ps, first), LAMBDA comma :
       Then(eat(src, comma.ps, Kind_STRING, <<>>), LAMBDA key :
       Then(eat(src, key.ps, Kind_DELIMITER, Str(<<":">>)), LAMBDA colon :
       Then(parseItem(src, colon.ps), LAMBDA value :
         parseCompoundEntries(src, value.ps,
                              MapSet(entries, key.tok.value, value.tag), FALSE)))))

\* SNBTParser.parseCompound()
parseCompound_(src, ps) ==
  Then(eat(src, ps, Kind_DELIMITER, Str(<<"{">>)), LAMBDA open :
  Then(parseCompoundEntries(src, open.ps, <<>>, TRUE), LAMBDA body :
  Then(eat(src, body.ps, Kind_DELIMITER, Str(<<"}">>)), LAMBDA close :
    Parsed(body.tag, close.ps))))

\* the suffixes parseList passes to eatNumberSuffixes for each array type
ArraySuffixes(arrayType) ==
  CASE arrayType = "B" -> Str(<<"b", "B">>)
    [] arrayType = "I" -> Str(<<"b", "B", "s", "S", "i", "I">>)
    [] arrayType = "L" -> Str(<<"b", "B", "s", "S", "i", "I", "l", "L">>)

\* the tag parseList returns for what it collected
Collected(arrayType, collected) ==
  CASE arrayType = "B" -> ByteArrayTag(collected)
    [] arrayType = "I" -> IntArrayTag(collected)
    [] arrayType = "L" -> LongArrayTag(collected)
    [] OTHER -> ListTag(collected)

\* Number(...) or BigInt(...) of the literal of an array element
ArrayElement(arrayType, text) ==
  IF arrayType = "L" THEN BigIntOf(text) ELSE NumberOf(text)

\* the loop of SNBTParser.parseList(): arrayType is "" for a plain list
parseListEntries(src, ps, arrayType, collected, first) ==
  IF matches(ps, Kind_DELIMITER, Str(<<"]">>)) THEN Parsed(Collected(arrayType, collected), ps)
  ELSE Then(Separator(src, ps, first), LAMBDA comma :
         IF arrayType = ""
         THEN Then(parseItem(src, comma.ps), LAMBDA item :
                parseListEntries(src, item.ps, arrayType, Append(collected, item.tag), FALSE))
         ELSE Then(eatNumberSuffixes(src, comma.ps, "int", ArraySuffixes(arrayType)),
                   LAMBDA number :
                     IF arrayType = "L" /\ BigIntThrows(number.tok.value)
                     THEN Abort(BIGINT_SYNTAX)
                     ELSE parseListEntries(
                            src, number.ps, arrayType,
                            Append(collected, ArrayElement(arrayType, number.tok.value)),
                            FALSE)))

\* the rest of parseList once the array type is known
parseListBody(src, ps, arrayType) ==
  Then(parseListEntries(src, ps, arrayType, <<>>, TRUE), LAMBDA body :
  Then(eat(src, body.ps, Kind_DELIMITER, Str(<<"]">>)), LAMBDA close :
    Parsed(body.tag, close.ps)))

\* SNBTParser.parseList()
parseList_(src, ps) ==
  Then(eat(src, ps, Kind_DELIMITER, Str(<<"[">>)), LAMBDA open :
    IF /\ open.ps.current.kind = Kind_STRING
       /\ open.ps.current.value \in {Str(<<"B">>), Str(<<"I">>), Str(<<"L">>)}
    THEN Then(eat(src, open.ps, Kind_STRING, <<>>), LAMBDA name :
         Then(eat(src, name.ps, Kind_DELIMITER, Str(<<";">>)), LAMBDA semi :
           parseListBody(src, semi.ps,
                         IF name.tok.value = Str(<<"B">>) THEN "B"
                         ELSE IF name.tok.value = Str(<<"I">>) THEN "I" ELSE "L")))
    ELSE parseListBody(src, open.ps, ""))

\* SNBTParser.parseItem()
parseItem(src, ps) ==
  IF matches(ps, Kind_NUMBER, <<>>) THEN parseNumber(src, ps)
  ELSE IF matches(ps, Kind_STRING, <<>>) THEN parseString_(src, ps)
  ELSE IF matches(ps, Kind_BOOLEAN, <<>>) THEN parseBoolean(src, ps)
  ELSE IF matches(ps, Kind_DELIMITER, Str(<<"[">>)) THEN parseList_(src, ps)
  ELSE IF matches(ps, Kind_DELIMITER, Str(<<"{">>)) THEN parseCompound_(src, ps)
  ELSE Abort(UNEXPECTED_ITEM)

\* what the caller of parse() gets: the tag returned, or the exception
Outcome(r) == IF r.ok THEN Ok(r.tag) ELSE Throw(r.err)

\* new SNBTParser(source).parse(): the constructor reads the first token
SNBTParser_parse(src) ==
  Then(next(src, NewLexer), LAMBDA first : parseItem(src, Parser(first.tok, first.lx)))

\* index.ts parseSNBT(text)
parseSNBT(src) == Outcome(SNBTParser_parse(src))

-----------------------------------------------------------------------------
(* SpecText: root.stringify(), then parseSNBT of the text it returned      *)

TextKeys == {<<>>, Str(<<"a">>), Str(<<"a", "1">>), Str(<<"t", "r", "u", "e">>)}

TextLeaves ==
  { ByteTag(Whole(-1)), ByteTag(Whole(5)), ShortTag(Whole(-2)), IntTag(Whole(1)),
    LongTag(Whole(-3)), FloatTag(Num(15, 1)), DoubleTag(Whole(-2)),
    StringTag(<<>>), StringTag(Str(<<"a">>)), StringTag(Str(<<"a", "1">>)),
    StringTag(Str(<<"t", "r", "u", "e">>)), StringTag(Str(<<"B">>)),
    StringTag(Str(<<"a", " ", "b">>)), StringTag(Str(<<"DQ">>)),
    StringTag(Str(<<"SQ">>)), StringTag(Str(<<"a", "BS", "b">>)),
    ByteArrayTag(<<Whole(-1), Whole(127)>>), IntArrayTag(<<Whole(7)>>),
    LongArrayTag(<<Whole(-1)>>) }

TextRoots == TextLeaves \cup ListsOf(TextLeaves) \cup CompoundsOver(TextKeys, TextLeaves)

InitText ==
  /\ root \in TextRoots
  /\ source = NoData
  /\ parsed = Idle
  /\ data = NoData /\ result = Idle
  /\ ContextIdle /\ CompoundIdle

\* tag.stringify()
Stringify ==
  /\ root # Null /\ source = NoData
  /\ source' = Bytes(stringify(root))
  /\ UNCHANGED <<root, data, result, parsed, ctx, appended, items, log>>

\* index.ts parseSNBT(text)
ParseSNBT ==
  /\ source.ok /\ parsed = Idle
  /\ parsed' = parseSNBT(source.value)
  /\ UNCHANGED <<root, data, result, source, ctx, appended, items, log>>

NextText == Stringify \/ ParseSNBT

SpecText == InitText /\ [][NextText]_vars

\* C3 (as claimed): for every tree with unique compound keys,
\* parseSNBT(x.stringify()) succeeds and yields a tree equal to x, unquoted
\* and quoted-and-escaped Strings and keys included.
C3_TextRoundTrip ==
  parsed # Idle => parsed = Ok(root)

-----------------------------------------------------------------------------
(* SpecSource: parseSNBT of a short text over the characters of a number   *)

MaxSource == 4
SourceChars == Str(<<"5", "0", ".", "-", "b", "S", "l", "f">>)
Sources == SeqUpTo({SourceChars[i] : i \in 1..Len(SourceChars)}, MaxSource)

InitSource ==
  /\ source \in {Bytes(t) : t \in Sources}
  /\ parsed = Idle
  /\ root = Null /\ data = NoData /\ result = Idle
  /\ ContextIdle /\ CompoundIdle

SpecSource == InitSource /\ [][ParseSNBT]_vars

IntegerOnlySuffixes == Str(<<"b", "B", "s", "S", "i", "I", "l", "L">>)

\* a number literal: an optional sign, then digits with one "." among them
DottedLiteral(text) ==
  /\ text # <<>>
  /\ IsDigit(text[1]) \/ text[1] \in {NUMBER_SIGN_PLUS, NUMBER_SIGN_MINUS}
  /\ \A i \in 2..Len(text) : IsDigit(text[i]) \/ text[i] = FLOAT_SEPARATOR
  /\ Cardinality({i \in 1..Len(text) : text[i] = FLOAT_SEPARATOR}) = 1
  /\ \E i \in 1..Len(text) : IsDigit(text[i])

\* a literal containing "." directly followed by an integer-only suffix
DottedWithIntegerSuffix(text) ==
  /\ Len(text) >= 2
  /\ Includes(IntegerOnlySuffixes, text[Len(text)])
  /\ DottedLiteral(SubSeq(text, 1, Len(text) - 1))

\* C8 (as claimed): a plain number item whose literal contains "." and which
\* is followed by an integer-only suffix is a parse error: parseSNBT of it
\* (for one, of "5.0b") fails and returns no value.
C8_DottedIntegerSuffixFails ==
  (parsed # Idle /\ DottedWithIntegerSuffix(source.value)) => ~parsed.ok

-----------------------------------------------------------------------------
(* SpecDuplicate: parseNBT and parseSNBT of a Compound written out pair by *)
(* pair, where a name may occur more than once                             *)

MaxPairs == 3   \* the most (name, value) pairs written

PairNames == {<<>>, Str(<<"a">>)}
PairValues ==
  { IntTag(Whole(1)), IntTag(Whole(2)), StringTag(Str(<<"a">>)),
    CompoundTag(<<Entry(Str(<<"a">>), IntTag(Whole(1)))>>) }
Pairs == SeqUpTo({Entry(k, v) : k \in PairNames, v \in PairValues}, MaxPairs)

\* the binary layout of the pairs as the entries of the Compound named "":
\* as dumpCompound lays them out, one (tag id, name, value) triple per pair,
\* then End
WrittenBytes(pairs) ==
  <<TAG_Compound>> \o NameBytes(<<>>)
  \o Concat([i \in 1..Len(pairs) |->
               <<pairs[i].value.id>> \o NameBytes(pairs[i].key) \o ValueBytes(pairs[i].value)])
  \o <<TAG_End>>

\* the text layout of the pairs: CompoundTag.stringify() lays out one
\* "name: value" per pair
WrittenText(pairs) == stringify([Null EXCEPT !.id = TAG_Compound, !.map = pairs])

InitDuplicate ==
  /\ log \in Pairs
  /\ data = Bytes(WrittenBytes(log))
  /\ source = Bytes(WrittenText(log))
  /\ result = Idle /\ parsed = Idle
  /\ root = Null /\ items = <<>>
  /\ ContextIdle

NextDuplicate == ParseNBT \/ ParseSNBT

SpecDuplicate == InitDuplicate /\ [][NextDuplicate]_vars

\* some name occurs in more than one pair
Repeats(pairs) == ~Distinct(MapKeys(pairs))

\* the value of the last pair that carries the name
LastValue(pairs, name) ==
  pairs[CHOOSE i \in 1..Len(pairs) :
          /\ pairs[i].key = name
          /\ \A j \in (i + 1)..Len(pairs) : pairs[j].key # name].value

\* C7: when two pairs of a Compound carry the same name, binary decode fails
\* with the duplicate-key error and returns no tree, whereas text parse
\* succeeds and yields a Compound that holds each name once, mapped to the
\* value of its last occurrence.
C7_DuplicateKeyAsymmetry ==
  Repeats(log) =>
    /\ result # Idle => result = Throw(DUPLICATE)
    /\ parsed # Idle =>
         /\ parsed.ok
         /\ parsed.value.id = TAG_Compound
         /\ Distinct(List(parsed.value))
         /\ {List(parsed.value)[i] : i \in 1..Len(List(parsed.value))}
              = {log[i].key : i \in 1..Len(log)}
         /\ \A i \in 1..Len(log) :
              Get(parsed.value, log[i].key) = LastValue(log, log[i].key)

\* {a: 1, a: 2} in both layouts: the decode threw the duplicate-key error
\* and the text parse returned {a: 2}
C7_Witness ==
  /\ log = <<Entry(Str(<<"a">>), IntTag(Whole(1))), Entry(Str(<<"a">>), IntTag(Whole(2)))>>
  /\ result = Throw(DUPLICATE)
  /\ parsed = Ok(CompoundTag(<<Entry(Str(<<"a">>), IntTag(Whole(2)))>>))

-----------------------------------------------------------------------------
(* SpecRead: the reads of one NBTParser over a buffer, one after another   *)

MaxData == 10   \* the longest buffer read
DataBytes == {0, 2}
DataBuffers == SeqUpTo(DataBytes, MaxData)

\* new NBTParser(data): pos = 0, nothing read yet
NewParser == Read(<<>>, 0)

\* a read as the history records it: the method, its width argument (0 when
\* it has none) and this.pos when it was called
ReadCall(op, bytes, at) == [op |-> op, bytes |-> bytes, at |-> at]

InitRead ==
  /\ data \in {Bytes(d) : d \in DataBuffers}
  /\ result = NewParser
  /\ log = <<>>
  /\ root = Null /\ items = <<>>
  /\ TextIdle /\ ContextIdle

\* a read on a parser that has not thrown; the history keeps the last read
Reading(op, bytes, outcome) ==
  /\ result.ok
  /\ result' = outcome
  /\ log' = <<ReadCall(op, bytes, result.pos)>>
  /\ UNCHANGED <<root, data, source, parsed, ctx, appended, items>>

ExpectByte == Reading("expectByte", 0, expectByte(data.value, result.pos))
ReadInteger ==
  \E bytes \in {2, 4, 8} :
    Reading("readInteger", bytes, readInteger(data.value, result.pos, bytes))
ReadUnsignedInteger ==
  \E bytes \in {2, 4, 8} :
    Reading("readUnsignedInteger", bytes, readUnsignedInteger(data.value, result.pos, bytes))
ReadFLoat ==
  \E bytes \in {4, 8} :
    Reading("readFLoat", bytes, readFLoat(data.value, result.pos, bytes))
ParseByteArray == Reading("parseByteArray", 0, parseByteArray(data.value, result.pos))
ParseString == Reading("parseString", 0, parseString(data.value, result.pos))

NextRead ==
  \/ ExpectByte \/ ReadInteger \/ ReadUnsignedInteger \/ ReadFLoat
  \/ ParseByteArray \/ ParseString

SpecRead == InitRead /\ [][NextRead]_vars

\* the last read made
LastRead == log[Len(log)]

\* the width of the length prefix of a read that has one
PrefixWidth(op) == IF op = "parseString" THEN 2 ELSE IF op = "parseByteArray" THEN 4 ELSE 0

\* the bytes a read consumes when the buffer holds them all: its width
\* argument, or its length prefix and the body of the length declared there
Consumes(d, call) ==
  IF call.op \in {"readInteger", "readUnsignedInteger", "readFLoat"} THEN call.bytes
  ELSE IF call.at + PrefixWidth(call.op) > Len(d) THEN PrefixWidth(call.op)
  ELSE PrefixWidth(call.op)
       + Unsigned(Slice(d, call.at, call.at + PrefixWidth(call.op)))

\* C11 (as claimed): a read of w bytes (an integer, a float, a string body or
\* a byte-array body behind its length prefix) at position p of a buffer of
\* length n succeeds and advances the position by exactly w whenever
\* p + w <= n, the exact fit p + w = n included, and fails with the
\* end-of-input error when fewer bytes remain.
C11_ReadsWithinBounds ==
  (log # <<>> /\ LastRead.op # "expectByte") =>
     IF LastRead.at + Consumes(data.value, LastRead) <= Len(data.value)
     THEN result.ok /\ result.pos = LastRead.at + Consumes(data.value, LastRead)
     ELSE ~result.ok /\ result.err = EOF

\* the same with the exact fit left out: reads that end before the last byte
\* succeed, reads that pass the end fail
ReadsStrictlyWithinBounds ==
  (/\ log # <<>> /\ LastRead.op # "expectByte"
   /\ LastRead.at + Consumes(data.value, LastRead) # Len(data.value)) =>
     IF LastRead.at + Consumes(data.value, LastRead) < Len(data.value)
     THEN result.ok /\ result.pos = LastRead.at + Consumes(data.value, LastRead)
     ELSE ~result.ok /\ result.err = EOF

-----------------------------------------------------------------------------
(* SpecLexer: the next() calls of one Lexer over a text, one after another *)

MaxText == 4   \* the longest text lexed
TextChars == Str(<<"5", "b", "D", "a", " ", ".", ",", "DQ", "SQ", "BS">>)
Texts == SeqUpTo({TextChars[i] : i \in 1..Len(TextChars)}, MaxText)

\* new Lexer(source), no token read yet
FreshLexer == Lexed(Token("none", <<>>), NewLexer)

\* a next() call as the history records it: this.pos when it was called and
\* what it returned or threw
NextCall(at, out) == [at |-> at, out |-> out]

InitLexer ==
  /\ source \in {Bytes(t) : t \in Texts}
  /\ parsed = FreshLexer
  /\ log = <<>>
  /\ root = Null /\ data = NoData /\ result = Idle /\ items = <<>>
  /\ ContextIdle

\* Lexer.next(), until it throws or returns the EOF token
NextToken ==
  /\ parsed.ok /\ parsed.tok.kind # Kind_EOF
  /\ parsed' = next(source.value, parsed.lx)
  /\ log' = Append(log, NextCall(parsed.lx.pos, parsed'))
  /\ UNCHANGED <<root, data, result, source, ctx, appended, items>>

SpecLexer == InitLexer /\ [][NextToken]_vars

\* the twelve suffix characters
SuffixChars == Str(<<"b", "B", "s", "S", "i", "I", "l", "L", "f", "F", "d", "D">>)

\* the i-th call returned a token of the kind
Emitted(i, kind) == log[i].out.ok /\ log[i].out.tok.kind = kind

\* the i-th call was made with the lexer right after a number token that the
\* call before it returned
AfterNumber(i) ==
  /\ i > 1
  /\ Emitted(i - 1, Kind_NUMBER)
  /\ log[i].at = log[i - 1].out.lx.pos

\* C12 (as claimed): over any sequence of next() calls a character is emitted
\* as a suffix token if and only if it is one of the twelve suffix characters
\* and the lexer stands right after the number token the previous call
\* returned; anywhere else such a character begins a string or boolean
\* token, and no suffix token follows another.
C12_SuffixOnlyAfterNumber ==
  \A i \in 1..Len(log) :
    /\ Emitted(i, Kind_SUFFIX) =>
         /\ AfterNumber(i)
         /\ Includes(SuffixChars, log[i].out.tok.value[1])
         /\ log[i].out.lx.pos = log[i].at + 1
    /\ (AfterNumber(i) /\ Includes(SuffixChars, CharCodeAt(source.value, log[i].at))) =>
         Emitted(i, Kind_SUFFIX)
    /\ (/\ log[i].out.ok /\ ~Emitted(i, Kind_SUFFIX) /\ log[i].out.tok.value # <<>>
        /\ Includes(SuffixChars, log[i].out.tok.value[1])) =>
         log[i].out.tok.kind \in {Kind_STRING, Kind_BOOLEAN}

\* the suffix rule for the characters of NUMBER_SUFFIXES only
SuffixOnlyAfterNumberListed ==
  \A i \in 1..Len(log) :
    /\ Emitted(i, Kind_SUFFIX) => AfterNumber(i)
    /\ (AfterNumber(i) /\ Includes(NUMBER_SUFFIXES, CharCodeAt(source.value, log[i].at))) =>
         Emitted(i, Kind_SUFFIX)

RECURSIVE ClaimedString(_, _, _, _)
\* a quoted string as described: from position pos inside a string opened by
\* q, a backslash before q gives q, any other backslash gives itself, the
\* first unescaped q ends the token; running out of text is an error
ClaimedString(src, pos, q, content) ==
  IF pos >= Len(src) THEN LexFail(LEX_EOF)
  ELSE IF CharCodeAt(src, pos) = Code("BS")
  THEN IF pos + 1 >= Len(src) THEN LexFail(LEX_EOF)
       ELSE IF CharCodeAt(src, pos + 1) = q
       THEN ClaimedString(src, pos + 2, q, Append(content, q))
       ELSE ClaimedString(src, pos + 1, q, Append(content, Code("BS")))
  ELSE IF CharCodeAt(src, pos) = q
  THEN Lexed(Token(Kind_STRING, content), [pos |-> pos + 1, lastNumber |-> -777])
  ELSE ClaimedString(src, pos + 1, q, Append(content, CharCodeAt(src, pos)))

\* the text starts with a quote and the first next() call has been made
QuotedFirst ==
  /\ log # <<>>
  /\ source.value # <<>>
  /\ source.value[1] \in {Code("DQ"), Code("SQ")}

\* C14 (as claimed): inside a string opened by q a backslash before q gives
\* q, a backslash before any other character gives the backslash itself, the
\* token ends at the first unescaped q, and an unterminated string or a
\* backslash as the last character is a lex error.
C14_QuotedStringEscapes ==
  QuotedFirst =>
    LET claimed == ClaimedString(source.value, 1, source.value[1], <<>>)
    IN  /\ log[1].out.ok = claimed.ok
        /\ claimed.ok =>
             /\ log[1].out.tok = claimed.tok
             /\ log[1].out.lx.pos = claimed.lx.pos

-----------------------------------------------------------------------------
(* SpecList: parseSNBT of short texts written with brackets, array markers *)
(* and separators                                                          *)

MaxListText == 5   \* the longest list text parsed
ListChars == Str(<<"[", "]", "B", "I", "x", ",", ";", "1">>)
ListTexts == SeqUpTo({ListChars[i] : i \in 1..Len(ListChars)}, MaxListText)

InitList ==
  /\ source \in {Bytes(t) : t \in ListTexts}
  /\ parsed = Idle
  /\ root = Null /\ data = NoData /\ result = Idle
  /\ ContextIdle /\ CompoundIdle

SpecList == InitList /\ [][ParseSNBT]_vars

\* the values that select a typed array
ArrayMarkers == Str(<<"B", "I", "L">>)

\* the tag id of the typed array a marker selects
ArrayIdOf(c) ==
  IF c = Code("B") THEN TAG_Byte_Array
  ELSE IF c = Code("I") THEN TAG_Int_Array
  ELSE TAG_Long_Array

\* the text is '[', one-letter names separated by ',', and ']'
LetterList(text) ==
  /\ Len(text) >= 3 /\ Len(text) % 2 = 1
  /\ text[1] = Code("[") /\ text[Len(text)] = Code("]")
  /\ \A i \in 2..(Len(text) - 1) :
       IF i % 2 = 0 THEN IsLetter(text[i]) ELSE text[i] = Code(",")

\* the String items of such a text
LetterItems(text) == [i \in 1..((Len(text) - 1) \div 2) |-> StringTag(<<text[2 * i]>>)]

\* the text opens with '[', a marker and ';'
MarkedArray(text) ==
  /\ Len(text) >= 3
  /\ text[1] = Code("[")
  /\ Includes(ArrayMarkers, text[2])
  /\ text[3] = Code(";")

\* C13 (as claimed): a list text selects a typed array only when the first
\* token after '[' is a string B, I or L and the token after it is ';'; in
\* every other case, a first element B, I or L followed by ',' or ']'
\* included, the result is the generic List of the parsed items, so [B,x]
\* is List([String(B), String(x)]).
C13_ArrayNeedsMarkerAndSemicolon ==
  parsed # Idle =>
    /\ LetterList(source.value) => parsed = Ok(ListTag(LetterItems(source.value)))
    /\ (parsed.ok /\ parsed.value.id \in {TAG_Byte_Array, TAG_Int_Array, TAG_Long_Array}) =>
         /\ MarkedArray(source.value)
         /\ parsed.value.id = ArrayIdOf(source.value[2])

\* the same for lists whose first name is not a marker
UnmarkedListsAreGeneric ==
  parsed # Idle =>
    /\ (LetterList(source.value) /\ ~Includes(ArrayMarkers, source.value[2])) =>
         parsed = Ok(ListTag(LetterItems(source.value)))
    /\ (parsed.ok /\ parsed.value.id \in {TAG_Byte_Array, TAG_Int_Array, TAG_Long_Array}) =>
         /\ MarkedArray(source.value)
         /\ parsed.value.id = ArrayIdOf(source.value[2])

\* a list whose first name is a marker has been parsed
MarkerFirstParsed ==
  /\ parsed # Idle
  /\ LetterList(source.value)
  /\ Includes(ArrayMarkers, source.value[2])

\* parseList throws on every such list
MarkerFirstThrows == MarkerFirstParsed => ~parsed.ok

=============================================================================
